---- MODULE Spec2Model ----
(***************************************************************************)
(* Driftwood: the Layer/Tile grid (layer.py), the EntityManager            *)
(* (entitymanager.py) and the InputManager key stack (input.py).           *)
(*                                                                         *)
(* Python's None is written per type: NoTile, NoEntity, NoCallback are     *)
(* records of the shape of the objects they stand in for; NoGid, NoTs,     *)
(* NoEid and Unset stand for None in an integer field.                     *)
(***************************************************************************)
EXTENDS Integers, Sequences, FiniteSets, TLC

\* ------------------------------------------------------------------ bounds
\* tilemap geometry (the Tilemap collaborator's fields)
Width == 2
Height == 2
TileWidth == 16
TileHeight == 16
\* the eid counter is capped: insert is enabled while last_eid < MaxEid
MaxEid == 2
\* the raw layer data holds at most this many cells whose graphic ID is not 1
MaxOddCells == 2
\* the object layers merged into one Layer hold at most this many objects in all
MaxObjects == 2

\* ---------------------------------------------------------------- encoding
NoGid == -1
NoTs == -1
NoEid == -1
Unset == -1
NoFile == "<unset>"
\* the empty dictionary
EmptyMap == [k \in {} |-> ""]
\* the walkability flag of a Tile no object has set
NoFlag == "<none>"
NoTile == [seq |-> -1, ts |-> NoTs, gid |-> NoGid,
           properties |-> EmptyMap, nowalk |-> NoFlag, exits |-> EmptyMap]
NoEntity == [oid |-> -1, eid |-> NoEid, filename |-> NoFile, layer |-> Unset,
             x |-> Unset, y |-> Unset, tile |-> NoTile]
NoCallback == [name |-> "none", x |-> 0, y |-> 0]

VARIABLES
    tilesets,       \* tilemap.tilesets: sequence of ID ranges <<start, end>>
    data,           \* layerdata["data"]: the raw per-cell graphic IDs
    tiles,          \* Layer.tiles
    properties,     \* Layer.properties
    map_errors,     \* the number of "Map" errors handed to driftwood.log
    merged,         \* history: the number of objects handed to _process_objects
    entities,       \* EntityManager.entities
    last_eid,       \* EntityManager.__last_eid
    changed,        \* driftwood.area.changed
    player,         \* EntityManager.player: the oid of the player Entity, or -1
    next_velocity,  \* the player Entity's pending velocity
    registry,       \* InputManager.__registry
    stack,          \* InputManager.__stack, index 1 is the front
    held,           \* history: the keys held, in order of their first press
    op,             \* the last call: <<name, arguments...>>
    ret,            \* what the last call returned
    fault,          \* the exception the last call raised, or "none"
    hook,           \* the Entity the last call handed to script.call, or NoEntity
    dispatched      \* the callbacks the last tick invoked, in order

vars == <<tilesets, data, tiles, properties, map_errors, merged, entities, last_eid, changed, player, next_velocity,
          registry, stack, held, op, ret, fault, hook, dispatched>>

layerVars == <<tilesets, data, tiles, properties, map_errors, merged>>
entityVars == <<entities, last_eid, changed, player, next_velocity, hook>>
inputVars == <<registry, stack, held, dispatched>>

\* ================================================================ layer.py

\* tile.Tile(self, seq, ts, gid); ts is the index of the tileset in tilesets
Tile(seq, ts, gid) ==
    [seq |-> seq, ts |-> ts, gid |-> gid,
     properties |-> EmptyMap, nowalk |-> NoFlag, exits |-> EmptyMap]

\* gid in range(*ts.range)
InRange(gid, range) == range[1] <= gid /\ gid < range[2]

\* The inner loop of __prepare_layer: one Tile per tileset whose range holds gid
\* (the loop has no break and no else).
RECURSIVE MatchTilesets(_, _, _, _)
MatchTilesets(tss, seq, gid, i) ==
    IF i > Len(tss) THEN <<>>
    ELSE (IF InRange(gid, tss[i]) THEN <<Tile(seq, i - 1, gid)>> ELSE <<>>)
         \o MatchTilesets(tss, seq, gid, i + 1)

\* The tiles one cell of the raw data appends to Layer.tiles.
CellTiles(tss, seq, gid) ==
    IF gid # 0 THEN MatchTilesets(tss, seq, gid, 1)
    ELSE <<Tile(seq, NoTs, NoGid)>>

\* Layer.__prepare_layer: enumerate(layerdata["data"]) from cell i on (seq = i - 1).
RECURSIVE PrepareFrom(_, _, _)
PrepareFrom(tss, d, i) ==
    IF i > Len(d) THEN <<>>
    ELSE CellTiles(tss, i - 1, d[i]) \o PrepareFrom(tss, d, i + 1)

PrepareLayerTiles(tss, d) == PrepareFrom(tss, d, 1)

\* Layer.tile(x, y) on the tile list ts
TileAt(ts, x, y) ==
    IF x < 0 \/ y < 0 \/ x >= Width \/ y >= Height THEN NoTile
    ELSE IF (y * Width) + x < Len(ts) THEN ts[(y * Width) + x + 1]
    ELSE NoTile

\* if "properties" in self.__layer: self.properties = self.__layer["properties"]
\* A JSON segment's optional "properties" is <<>> (no such key) or <<map>>.
LayerProperties(own, segment) == IF Len(segment) > 0 THEN segment[1] ELSE own

\* dict.update: old.update(new)
Update(old, new) ==
    [k \in DOMAIN old \cup DOMAIN new |-> IF k \in DOMAIN new THEN new[k] ELSE old[k]]

\* if "properties" in objdata: self.properties.update(objdata["properties"])
MergeLayerProperties(own, segment) ==
    IF Len(segment) > 0 THEN Update(own, segment[1]) ELSE own

\* the loop for exittype in [...] of _process_objects
ExitTypes == {"exit", "exit:up", "exit:down", "exit:left", "exit:right"}

\* _process_objects, lines 105-114, on the Tile t that self.tile(tx, ty) returned
MergeTile(t, props) ==
    LET updated == Update(t.properties, props)
    IN [t EXCEPT !.properties = updated,
                 !.nowalk = IF "nowalk" \in DOMAIN updated THEN updated["nowalk"] ELSE @,
                 !.exits = Update(@, [k \in DOMAIN updated \cap ExitTypes |-> updated[k]])]

\* the test of _process_objects, lines 91-93: true when the object is skipped
Misplaced(obj) ==
    \/ obj.x % TileWidth # 0 \/ obj.y % TileHeight # 0
    \/ obj.width % TileWidth # 0 \/ obj.height % TileHeight # 0

\* The two loops of _process_objects over the cells of obj, from (x, y) on; x is
\* the outer loop. self.tile(tx, ty) is None outside the grid and past the end of
\* the tile list, and None has no attribute properties.
RECURSIVE MergeCells(_, _, _, _)
MergeCells(ts, obj, x, y) ==
    IF x >= obj.width \div TileWidth THEN [tiles |-> ts, fault |-> "none"]
    ELSE IF y >= obj.height \div TileHeight THEN MergeCells(ts, obj, x + 1, 0)
    ELSE LET tx == (obj.x \div TileWidth) + x
             ty == (obj.y \div TileHeight) + y
         IN IF TileAt(ts, tx, ty) = NoTile
            THEN [tiles |-> ts, fault |-> "AttributeError"]
            ELSE MergeCells([ts EXCEPT ![(ty * Width) + tx + 1] =
                                           MergeTile(@, obj.properties)],
                            obj, x, y + 1)

\* for obj in objdata["objects"], from object i on; errs counts the errors logged
RECURSIVE ProcessFrom(_, _, _, _)
ProcessFrom(ts, errs, objs, i) ==
    IF i > Len(objs) THEN [tiles |-> ts, errors |-> errs, fault |-> "none"]
    ELSE IF Misplaced(objs[i]) THEN ProcessFrom(ts, errs + 1, objs, i + 1)
    ELSE LET cells == MergeCells(ts, objs[i], 0, 0)
         IN IF cells.fault # "none"
            THEN [tiles |-> cells.tiles, errors |-> errs, fault |-> cells.fault]
            ELSE ProcessFrom(cells.tiles, errs, objs, i + 1)

\* the object loop of Layer._process_objects on the tile list ts
ProcessObjectList(ts, errs, objs) == ProcessFrom(ts, errs, objs, 1)

\* ----------------------------------------------------------- layer inputs
\* graphic IDs: 0 is the empty cell; 1 lies in the first tileset only; 2 lies in
\* the first tileset and, where a second overlaps it, in that too; 5 in none.
Gids == {0, 1, 2, 5}
TilesetChoices == { <<<<1, 3>>>>, <<<<1, 3>>, <<2, 4>>>>, <<<<1, 3>>, <<3, 5>>>> }
Cells == Width * Height
\* the raw data: every cell holds graphic ID 1 but for at most MaxOddCells cells
LayerData ==
    {d \in [1..Cells -> Gids] : Cardinality({i \in 1..Cells : d[i] # 1}) <= MaxOddCells}
\* the raw data of the entity manager's area: well-formed, or one stray graphic ID
AreaData == { [i \in 1..Cells |-> 1], [i \in 1..Cells |-> IF i = 1 THEN 5 ELSE 1] }
XCoords == -1..Width
YCoords == -1..Height
\* the optional "properties" of a raw tile layer and of an object layer
RawLayerProperties == { <<>>, <<("name" :> "ground")>> }
ObjLayerProperties == { <<>>, <<("name" :> "zones")>> }

\* an object of an object layer, its rectangle given in cells
Object(cx, cy, cw, ch, props, type) ==
    [x |-> cx * TileWidth, y |-> cy * TileHeight,
     width |-> cw * TileWidth, height |-> ch * TileHeight,
     properties |-> props, type |-> type]

Wall == ("nowalk" :> "true") @@ ("exit" :> "a.json")
Door == ("nowalk" :> "false") @@ ("exit" :> "b.json") @@ ("exit:up" :> "c.json")
Sign == ("text" :> "hello")

\* rectangles <<cx, cy, cw, ch>> inside the grid
RectsInside ==
    { <<0, 0, 1, 1>>, <<Width - 1, 0, 1, 1>>, <<0, 0, 2, 1>>, <<0, Height - 1, 2, 1>>,
      <<Width - 1, 0, 1, 2>> }
\* rectangles partly outside the grid (negative origin, past the width, past the
\* height) and wholly outside it
RectsOutside ==
    { <<-1, 0, 2, 1>>, <<Width - 1, Height - 1, 2, 1>>, <<0, Height - 1, 1, 2>>,
      <<Width, 0, 1, 1>> }

Objects ==
    { Object(r[1], r[2], r[3], r[4], p, "") : r \in RectsInside, p \in {Wall, Door} }
    \cup { Object(r[1], r[2], r[3], r[4], Door, "") : r \in RectsOutside }
    \cup { Object(0, 0, 1, 1, Sign, ""), Object(Width - 1, 0, 1, 1, Door, "entity"),
            [Object(0, 0, 1, 1, Wall, "") EXCEPT !.x = 1],
            [Object(0, 0, 2, 1, Door, "") EXCEPT !.width = TileWidth + 8] }

\* the object lists of the object layers that fit into what the layer still takes
ObjectLists(n) == UNION { [1..m -> Objects] : m \in 0..n }

\* Layer(tilemap, layerdata, zpos): __init__ runs __prepare_layer
PrepareLayer ==
    /\ op[1] = "init"
    /\ tiles' = PrepareLayerTiles(tilesets, data)
    /\ \E segment \in RawLayerProperties :
           properties' = LayerProperties(properties, segment)
    /\ op' = <<"Layer">>
    /\ ret' = NoTile
    /\ fault' = "none"
    /\ UNCHANGED <<tilesets, data, map_errors, merged, entityVars, inputVars>>

\* layer.tile(x, y)
TileLookup(x, y) ==
    /\ op[1] # "init"
    /\ op' = <<"tile", x, y>>
    /\ ret' = TileAt(tiles, x, y)
    /\ fault' = "none"
    /\ UNCHANGED <<layerVars, entityVars, inputVars>>

\* layer._process_objects(objdata)
ProcessObjects(segment, objs) ==
    LET out == ProcessObjectList(tiles, map_errors, objs)
    IN /\ op[1] # "init"
       /\ merged + Len(objs) <= MaxObjects
       /\ op' = <<"merge", objs>>
       /\ properties' = MergeLayerProperties(properties, segment)
       /\ tiles' = out.tiles
       /\ map_errors' = out.errors
       /\ fault' = out.fault
       /\ merged' = merged + Len(objs)
       /\ ret' = NoTile
       /\ UNCHANGED <<tilesets, data, entityVars, inputVars>>

InitOther ==
    /\ properties = EmptyMap
    /\ map_errors = 0
    /\ merged = 0
    /\ entities = <<>>
    /\ last_eid = -1
    /\ changed = FALSE
    /\ player = -1
    /\ next_velocity = <<0, 0>>
    /\ registry = [k \in {} |-> NoCallback]
    /\ stack = <<>>
    /\ held = <<>>
    /\ hook = NoEntity
    /\ dispatched = <<>>

InitLayer ==
    /\ tilesets \in TilesetChoices
    /\ data \in LayerData
    /\ tiles = <<>>
    /\ op = <<"init">>
    /\ ret = NoTile
    /\ fault = "none"
    /\ InitOther

NextLayer ==
    \/ PrepareLayer
    \/ \E x \in XCoords, y \in YCoords : TileLookup(x, y)

SpecLayer == InitLayer /\ [][NextLayer]_vars

\* The layer the object layers are merged into: built from well-formed raw data
\* or from raw data with one stray graphic ID.
InitMerge ==
    /\ tilesets = <<<<1, 3>>>>
    /\ data \in AreaData
    /\ tiles = <<>>
    /\ op = <<"init">>
    /\ ret = NoTile
    /\ fault = "none"
    /\ InitOther

NextMerge ==
    \/ PrepareLayer
    \/ \E segment \in ObjLayerProperties, objs \in ObjectLists(MaxObjects - merged) :
           ProcessObjects(segment, objs)

SpecMerge == InitMerge /\ [][NextMerge]_vars

\* ======================================================== entitymanager.py

\* resource.request_json(filename): the descriptors of the area's entities
Descriptor(filename) ==
    CASE filename = "tile.json" -> [mode |-> "tile", on_insert |-> FALSE]
      [] filename = "pixel.json" -> [mode |-> "pixel", on_insert |-> TRUE]
      [] OTHER -> [mode |-> "bogus", on_insert |-> FALSE]

\* entity.TileModeEntity(self) / entity.PixelModeEntity(self): a fresh Entity on
\* which _read has not run. oid is the identity of the Python object.
NewEntity(oid) == [NoEntity EXCEPT !.oid = oid]

\* Entity._read(filename, eid)
ReadEntity(ent, filename, eid) == [ent EXCEPT !.filename = filename, !.eid = eid]

\* self.__last_eid += 1
NextEid(last) == last + 1

\* (x % tilewidth == 0) and (y % tileheight == 0)
OnTile(x, y) == (x % TileWidth = 0) /\ (y % TileHeight = 0)

\* The outcome of a call: the fields it leaves and what the caller sees.
Outcome(ents, last, chg, r, f, h) ==
    [entities |-> ents, last_eid |-> last, changed |-> chg, ret |-> r, fault |-> f,
     hook |-> h]

\* insert with the Entity taken off the live list again when x, y are off the grid
InsertAtRollback(appended, eid, chg, filename, layer, x, y) ==
    IF eid >= Len(appended)
    THEN Outcome(appended, eid, chg, NoEntity, "IndexError", NoEntity)
    ELSE IF OnTile(x, y)
    THEN LET onTile == [ReadEntity(appended[eid + 1], filename, eid)
                            EXCEPT !.x = x, !.y = y, !.layer = layer,
                                   !.tile = TileAt(tiles, x \div TileWidth, y \div TileHeight)]
             done == [appended EXCEPT ![eid + 1] = onTile]
         IN Outcome(done, eid, TRUE, done[Len(done)], "none",
                    IF Descriptor(filename).on_insert THEN onTile ELSE NoEntity)
    ELSE Outcome(SubSeq(appended, 1, Len(appended) - 1), eid, chg, NoEntity, "none",
                 NoEntity)

\* EntityManager.insert, lines 85-115: the Entity is appended already (appended),
\* eid is the eid just allocated. self.entities[eid] is index eid + 1 here.
InsertAt(appended, eid, chg, filename, layer, x, y) ==
    IF eid >= Len(appended)
    THEN Outcome(appended, eid, chg, NoEntity, "IndexError", NoEntity)
    ELSE LET placed == [ReadEntity(appended[eid + 1], filename, eid)
                            EXCEPT !.x = x, !.y = y, !.layer = layer]
             moved == [appended EXCEPT ![eid + 1] = placed]
         IN IF OnTile(x, y)
            THEN LET onTile == [placed EXCEPT
                                  !.tile = TileAt(tiles, x \div TileWidth, y \div TileHeight)]
                     done == [appended EXCEPT ![eid + 1] = onTile]
                 IN Outcome(done, eid, TRUE, done[Len(done)], "none",
                            IF Descriptor(filename).on_insert THEN onTile ELSE NoEntity)
            ELSE Outcome(moved, eid, chg, NoEntity, "none", NoEntity)

\* insert without the test of the mode: the Entity is created whatever the mode
InsertAnyMode(ents, last, chg, filename, layer, x, y) ==
    InsertAt(Append(ents, NewEntity(last + 1)), NextEid(last), chg,
             filename, layer, x, y)

\* EntityManager.insert
InsertOutcome(ents, last, chg, filename, layer, x, y) ==
    IF Descriptor(filename).mode \in {"tile", "pixel"}
    THEN InsertAt(Append(ents, NewEntity(last + 1)), NextEid(last), chg,
                  filename, layer, x, y)
    ELSE Outcome(ents, last, chg, NoEntity, "none", NoEntity)

\* del self.entities[ent], ent counted from 0
DelAt(ents, i) == SubSeq(ents, 1, i) \o SubSeq(ents, i + 2, Len(ents))

\* The loop of kill and killall: for ent in range(n), from ent = i on, deleting
\* the entities whose field equals value. The range is fixed when the loop starts.
RECURSIVE KillLoop(_, _, _, _, _)
KillLoop(ents, i, n, field, value) ==
    IF i >= n THEN [entities |-> ents, fault |-> "none"]
    ELSE IF i >= Len(ents) THEN [entities |-> ents, fault |-> "IndexError"]
    ELSE IF ents[i + 1][field] = value
         THEN KillLoop(DelAt(ents, i), i + 1, n, field, value)
         ELSE KillLoop(ents, i + 1, n, field, value)

\* EntityManager.kill / killall: area.changed is set after the loop
KillOutcome(ents, last, chg, field, value) ==
    LET loop == KillLoop(ents, 0, Len(ents), field, value)
    IN Outcome(loop.entities, last, IF loop.fault = "none" THEN TRUE ELSE chg,
               NoEntity, loop.fault, NoEntity)

\* EntityManager.entity(eid)
RECURSIVE EntityOf(_, _, _)
EntityOf(ents, eid, i) ==
    IF i > Len(ents) THEN NoEntity
    ELSE IF ents[i].eid = eid THEN ents[i]
    ELSE EntityOf(ents, eid, i + 1)

\* EntityManager.layer(layer)
EntitiesOnLayer(ents, layer) == SelectSeq(ents, LAMBDA e : e.layer = layer)

\* ---------------------------------------------------------- entity inputs
Filenames == {"tile.json", "pixel.json", "bad.json"}
LayerIds == {0, 1}
InsertArgs ==
    { <<"tile.json", 0, 0, 0>>,
      <<"pixel.json", 1, TileWidth, TileHeight>>,
      <<"tile.json", 1, TileWidth + 1, 0>>,
      <<"pixel.json", 0, 0, TileHeight + 1>>,
      <<"pixel.json", 0, TileWidth, 0>>,
      <<"bad.json", 0, 0, 0>> }
Eids == 0..MaxEid

Apply(out) ==
    /\ entities' = out.entities
    /\ last_eid' = out.last_eid
    /\ changed' = out.changed
    /\ ret' = out.ret
    /\ fault' = out.fault
    /\ hook' = out.hook

Insert(filename, layer, x, y) ==
    /\ last_eid < MaxEid
    /\ op' = <<"insert", filename, layer, x, y>>
    /\ Apply(InsertOutcome(entities, last_eid, changed, filename, layer, x, y))
    /\ UNCHANGED <<layerVars, inputVars, player, next_velocity>>

Kill(eid) ==
    /\ op' = <<"kill", eid>>
    /\ Apply(KillOutcome(entities, last_eid, changed, "eid", eid))
    /\ UNCHANGED <<layerVars, inputVars, player, next_velocity>>

Killall(filename) ==
    /\ op' = <<"killall", filename>>
    /\ Apply(KillOutcome(entities, last_eid, changed, "filename", filename))
    /\ UNCHANGED <<layerVars, inputVars, player, next_velocity>>

\* The area of the entity manager: a tilemap whose layers are all built from the
\* same raw data.
InitEntity ==
    /\ tilesets \in TilesetChoices
    /\ data \in AreaData
    /\ tiles = PrepareLayerTiles(tilesets, data)
    /\ op = <<"init">>
    /\ ret = NoEntity
    /\ fault = "none"
    /\ InitOther


\* ================================================================ input.py

\* Push with the key put at the back of the stack: self.__stack.append(keysym)
PushBack(stk, keysym) ==
    IF \E i \in 1..Len(stk) : stk[i] = keysym THEN stk ELSE Append(stk, keysym)

\* Push with a key already on the stack moved to the front
PushToFront(stk, keysym) == <<keysym>> \o SelectSeq(stk, LAMBDA k : k # keysym)

\* if not keysym in self.__stack: self.__stack.insert(0, keysym)
Push(stk, keysym) ==
    IF \E i \in 1..Len(stk) : stk[i] = keysym THEN stk ELSE <<keysym>> \o stk

\* if keysym in self.__stack: self.__stack.remove(keysym)
Remove(stk, keysym) == SelectSeq(stk, LAMBDA k : k # keysym)

\* register without the test of the registry: the last registration wins
RegisterOver(reg, keysym, callback) ==
    [k \in DOMAIN reg \cup {keysym} |-> IF k = keysym THEN callback ELSE reg[k]]

\* InputManager.register: if not keysym in self.__registry
RegisterIn(reg, keysym, callback) ==
    IF keysym \in DOMAIN reg THEN reg
    ELSE [k \in DOMAIN reg \cup {keysym} |-> IF k = keysym THEN callback ELSE reg[k]]

\* InputManager.unregister
UnregisterIn(reg, keysym) == [k \in DOMAIN reg \ {keysym} |-> reg[k]]

\* __default_keybind_move(x, y): the closure move, which takes one argument
MoveCallback(x, y) == [name |-> "move", x |-> x, y |-> y]

\* A callback called with the arguments args while the player's pending velocity
\* is vel. move(keyevent) takes exactly one argument: any other call raises
\* TypeError before its body runs. The other callbacks take none.
Call(callback, args, vel) ==
    IF callback.name = "move"
    THEN IF Len(args) # 1 THEN [fault |-> "TypeError", vel |-> vel]
         ELSE IF args[1] \in {"ONDOWN", "ONREPEAT"}
              THEN [fault |-> "none", vel |-> <<callback.x, callback.y>>]
         ELSE IF args[1] = "ONUP" THEN [fault |-> "none", vel |-> <<0, 0>>]
         ELSE [fault |-> "none", vel |-> vel]
    ELSE IF Len(args) # 0 THEN [fault |-> "TypeError", vel |-> vel]
         ELSE [fault |-> "none", vel |-> vel]

\* The arguments tick passes to the callback: self.__registry[self.__stack[0]]()
TickArgs == <<>>

\* InputManager.tick
TickOutcome(stk, reg, vel) ==
    IF Len(stk) > 0 /\ stk[1] \in DOMAIN reg
    THEN LET called == Call(reg[stk[1]], TickArgs, vel)
         IN [dispatched |-> <<reg[stk[1]]>>, fault |-> called.fault, vel |-> called.vel]
    ELSE [dispatched |-> <<>>, fault |-> "none", vel |-> vel]

\* getkey(keyid): the keycode the configuration binds to a direction
GetKey(keyid) ==
    CASE keyid = "up" -> "K_UP"
      [] keyid = "down" -> "K_DOWN"
      [] keyid = "left" -> "K_LEFT"
      [] keyid = "right" -> "K_RIGHT"

\* The four register calls of setup_player, in order
DefaultKeybinds(reg) ==
    RegisterIn(RegisterIn(RegisterIn(RegisterIn(reg,
        GetKey("up"), MoveCallback(0, -1)),
        GetKey("down"), MoveCallback(0, 1)),
        GetKey("left"), MoveCallback(-1, 0)),
        GetKey("right"), MoveCallback(1, 0))

\* ----------------------------------------------------------- input inputs
Keys == {"K_UP", "K_DOWN", "K_LEFT", "K_RIGHT"}
\* the keys and callbacks of the register and unregister calls of other code
RegKeys == {"K_UP", "K_RIGHT"}
Callbacks == { [name |-> "A", x |-> 0, y |-> 0], [name |-> "B", x |-> 0, y |-> 0] }
\* the pending velocity an Entity may hold when it is made the player
Velocities == { <<0, 0>>, <<1, 0>> }

KeyDown(keysym) ==
    /\ op' = <<"key_down", keysym>>
    /\ stack' = Push(stack, keysym)
    /\ held' = IF \E i \in 1..Len(held) : held[i] = keysym THEN held
               ELSE Append(held, keysym)
    /\ ret' = NoEntity
    /\ fault' = "none"
    /\ UNCHANGED <<layerVars, entityVars, registry, dispatched>>

\* the call record tells whether the key was held when it was released
KeyUp(keysym) ==
    /\ op' = <<"key_up", keysym, \E i \in 1..Len(held) : held[i] = keysym>>
    /\ stack' = Remove(stack, keysym)
    /\ held' = SelectSeq(held, LAMBDA k : k # keysym)
    /\ ret' = NoEntity
    /\ fault' = "none"
    /\ UNCHANGED <<layerVars, entityVars, registry, dispatched>>

Register(keysym, callback) ==
    /\ op' = <<"register", keysym, callback>>
    /\ registry' = RegisterIn(registry, keysym, callback)
    /\ ret' = NoEntity
    /\ fault' = "none"
    /\ UNCHANGED <<layerVars, entityVars, stack, held, dispatched>>

Unregister(keysym) ==
    /\ op' = <<"unregister", keysym>>
    /\ registry' = UnregisterIn(registry, keysym)
    /\ ret' = NoEntity
    /\ fault' = "none"
    /\ UNCHANGED <<layerVars, entityVars, stack, held, dispatched>>

Tick ==
    LET out == TickOutcome(stack, registry, next_velocity)
    IN /\ op' = <<"tick">>
       /\ dispatched' = out.dispatched
       /\ fault' = out.fault
       /\ next_velocity' = out.vel
       /\ ret' = NoEntity
       /\ UNCHANGED <<layerVars, entities, last_eid, changed, player, hook,
                      registry, stack, held>>

\* EntityManager.setup_player(ent)
SetupPlayer(ent) ==
    /\ op' = <<"setup_player", ent.oid>>
    /\ player' = ent.oid
    /\ registry' = DefaultKeybinds(registry)
    /\ ret' = NoEntity
    /\ fault' = "none"
    /\ UNCHANGED <<layerVars, entities, last_eid, changed, next_velocity, hook,
                   stack, held, dispatched>>

\* The input manager of a game whose entity manager holds one inserted Entity.
InitInput ==
    /\ tilesets = <<<<1, 3>>>>
    /\ data = [i \in 1..Cells |-> 1]
    /\ tiles = PrepareLayerTiles(tilesets, data)
    /\ properties = EmptyMap
    /\ map_errors = 0
    /\ merged = 0
    /\ entities = InsertOutcome(<<>>, -1, FALSE, "tile.json", 0, 0, 0).entities
    /\ last_eid = 0
    /\ changed = TRUE
    /\ player = -1
    /\ next_velocity \in Velocities
    /\ registry = [k \in {} |-> NoCallback]
    /\ stack = <<>>
    /\ held = <<>>
    /\ hook = NoEntity
    /\ dispatched = <<>>
    /\ op = <<"init">>
    /\ ret = NoEntity
    /\ fault = "none"

NextInput ==
    \/ \E k \in Keys : KeyDown(k)
    \/ \E k \in Keys : KeyUp(k)
    \/ \E k \in RegKeys, c \in Callbacks : Register(k, c)
    \/ \E k \in RegKeys : Unregister(k)
    \/ Tick
    \/ \E i \in 1..Len(entities) : SetupPlayer(entities[i])

SpecInput == InitInput /\ [][NextInput]_vars

Next ==
    \/ \E a \in InsertArgs : Insert(a[1], a[2], a[3], a[4])
    \/ \E eid \in Eids : Kill(eid)
    \/ \E f \in Filenames : Killall(f)
    \/ \E i \in 1..Len(entities) : SetupPlayer(entities[i])

Spec == InitEntity /\ [][Next]_vars

\* ================================================================== claims

ValidMode(filename) == Descriptor(filename).mode \in {"tile", "pixel"}

\* the step is a call of insert with a valid mode
ValidInsertStep == op'[1] = "insert" /\ ValidMode(op'[2])

LiveEidsDistinct ==
    \A i, j \in 1..Len(entities) : i # j => entities[i].eid # entities[j].eid

\* C1: every insert with a valid mode allocates an eid greater than every eid
\* allocated before it (the first is 0), the counter never goes back, so no eid is
\* allocated twice, and the live entities always have pairwise distinct eids.
C1_EidsIncreaseAndDistinct ==
    /\ [](last_eid >= -1 /\ LiveEidsDistinct)
    /\ [][/\ last_eid' >= last_eid
          /\ ValidInsertStep => (last_eid' > last_eid /\ (last_eid = -1 => last_eid' = 0))
         ]_vars

\* C2: insert with a valid mode and x, y on the tile grid returns the Entity this
\* call created: it is the last of the live list, carries the eid this call
\* allocated and the arguments as layer, x and y, its tile is
\* tilemap.layers[layer].tile(x / tilewidth, y / tileheight), and the area is
\* marked changed.
C2_InsertReturnsNewEntity ==
    [][(ValidInsertStep /\ OnTile(op'[4], op'[5])) =>
         /\ fault' = "none"
         /\ ret' = entities'[Len(entities')]
         /\ ret'.oid = last_eid + 1
         /\ ret'.eid = last_eid'
         /\ ret'.layer = op'[3] /\ ret'.x = op'[4] /\ ret'.y = op'[5]
         /\ ret'.tile = TileAt(tiles, op'[4] \div TileWidth, op'[5] \div TileHeight)
         /\ changed'
      ]_vars

\* C3: kill(eid) completes without a fault, leaves no entity with that eid,
\* keeps every other entity in its original relative order, and marks the area
\* changed.
C3_KillRemovesMatch ==
    [][op'[1] = "kill" =>
         /\ fault' = "none"
         /\ entities' = SelectSeq(entities, LAMBDA e : e.eid # op'[2])
         /\ changed'
      ]_vars

\* C4: killall(filename) removes every entity of that descriptor filename,
\* however many match and wherever they sit, keeps the others in their original
\* relative order, and marks the area changed.
C4_KillallRemovesEveryMatch ==
    [][op'[1] = "killall" =>
         /\ fault' = "none"
         /\ entities' = SelectSeq(entities, LAMBDA e : e.filename # op'[2])
         /\ changed'
      ]_vars

\* C5: a constructed Layer holds exactly tilemap.width * tilemap.height tiles,
\* whatever graphic IDs its raw data holds.
C5_TileCount == op[1] # "init" => Len(tiles) = Width * Height

\* C6: layer.tile(x, y) returns, for (x, y) inside the grid, a tile whose sequence
\* index is y * width + x, and none for (x, y) outside it.
C6_RowMajorLookup ==
    op[1] = "tile" =>
        IF 0 <= op[2] /\ op[2] < Width /\ 0 <= op[3] /\ op[3] < Height
        THEN ret # NoTile /\ ret.seq = (op[3] * Width) + op[2]
        ELSE ret = NoTile

\* C10: insert with a valid mode and x or y off the tile grid returns none,
\* attaches no tile to the Entity it created, does not mark the area changed and
\* does not call the on_insert hook.
C10_MisalignedInsertFails ==
    [][(ValidInsertStep /\ ~OnTile(op'[4], op'[5])) =>
         /\ fault' = "none"
         /\ ret' = NoEntity
         /\ \A i \in 1..Len(entities') :
                entities'[i].oid = last_eid + 1 => entities'[i].tile = NoTile
         /\ changed' = changed
         /\ hook' = NoEntity
      ]_vars

\* the key pressed last among the keys still held
LastPressed == held[Len(held)]

\* the key is bound to the movement callback setup_player registers for it
MoveBound(keysym) == keysym \in DOMAIN registry /\ registry[keysym].name = "move"

\* C7: a tick invokes at most one callback: the one registered for the key
\* pressed last among the keys still held, if that key has one, and none
\* otherwise (after key_down(A), key_down(B) that is B's; after key_up(B), A's).
C7_TickDispatchesLastPressed ==
    op[1] = "tick" =>
        /\ Len(dispatched) <= 1
        /\ dispatched = IF held # <<>> /\ LastPressed \in DOMAIN registry
                        THEN <<registry[LastPressed]>>
                        ELSE <<>>

\* C7 witness: two keys held, both with a callback, and the tick has invoked the
\* callback of the one pressed second and not that of the one pressed first.
C7_Witness ==
    /\ op[1] = "tick"
    /\ Len(held) = 2
    /\ held[1] \in DOMAIN registry /\ held[2] \in DOMAIN registry
    /\ registry[held[1]] # registry[held[2]]
    /\ dispatched = <<registry[held[2]]>>

\* C8: after setup_player, a tick at which the key pressed last among the keys
\* still held is bound to a movement callback completes and leaves the player's
\* pending velocity at that key's direction vector.
C8_TickSetsDirection ==
    (op[1] = "tick" /\ player # -1 /\ held # <<>> /\ MoveBound(LastPressed)) =>
        /\ fault = "none"
        /\ next_velocity = <<registry[LastPressed].x, registry[LastPressed].y>>

\* C9: after setup_player, when a held key bound to a movement callback is
\* released and no key bound to one remains held, the player's pending velocity
\* is (0, 0) once the next tick has run.
C9_ReleaseResetsVelocity ==
    [][(/\ player # -1
        /\ op[1] = "key_up" /\ op[3] /\ MoveBound(op[2])
        /\ \A i \in 1..Len(held) : ~MoveBound(held[i])
        /\ op'[1] = "tick") =>
         /\ fault' = "none"
         /\ next_velocity' = <<0, 0>>
      ]_vars

\* C11: insert with a descriptor whose mode is neither "tile" nor "pixel" returns
\* none without a fault and creates no Entity: the live list, the eid counter and
\* the area-changed flag are what they were before the call, and no hook runs.
C11_UnknownModeCreatesNothing ==
    [][(op'[1] = "insert" /\ ~ValidMode(op'[2])) =>
         /\ ret' = NoEntity
         /\ fault' = "none"
         /\ entities' = entities
         /\ last_eid' = last_eid
         /\ changed' = changed
         /\ hook' = NoEntity
      ]_vars

\* C11 witness: an insert with an unknown mode has run on a manager that holds
\* entities and has removed one, and has left the list and the counter alone.
C11_Witness ==
    /\ op[1] = "insert" /\ ~ValidMode(op[2])
    /\ ret = NoEntity /\ fault = "none"
    /\ Len(entities) >= 1
    /\ Len(entities) < last_eid + 1

\* ---------------------------------------------------------- object merge

\* the step is a call of _process_objects
MergeStep == op'[1] = "merge"

\* the cells of the object's rectangle: (width / tilewidth) x (height / tileheight)
\* cells from (x / tilewidth, y / tileheight)
Footprint(obj) ==
    { <<tx, ty>> \in
        ((obj.x \div TileWidth)..((obj.x \div TileWidth) + (obj.width \div TileWidth) - 1))
        \X ((obj.y \div TileHeight)..((obj.y \div TileHeight) + (obj.height \div TileHeight) - 1))
      : TRUE }

InsideGrid(cell) == 0 <= cell[1] /\ cell[1] < Width /\ 0 <= cell[2] /\ cell[2] < Height

\* the sequence indices of the grid cells the object covers
CellSeqs(obj) == { (c[2] * Width) + c[1] : c \in {d \in Footprint(obj) : InsideGrid(d)} }

\* the tile after holds what the tile before held with the properties merged in,
\* the nowalk flag and the exit map set from the properties that name them
MergedInto(before, after, props) ==
    /\ after.seq = before.seq /\ after.ts = before.ts /\ after.gid = before.gid
    /\ after.properties = Update(before.properties, props)
    /\ after.nowalk = IF "nowalk" \in DOMAIN props THEN props["nowalk"] ELSE before.nowalk
    /\ DOMAIN after.exits = DOMAIN before.exits \cup (DOMAIN props \cap ExitTypes)
    /\ \A k \in DOMAIN after.exits :
           after.exits[k] = IF k \in DOMAIN props THEN props[k] ELSE before.exits[k]

\* C12: merging one tile-aligned object whose rectangle lies inside the grid
\* completes, gives every cell of its footprint a tile that holds the object's
\* properties merged in, the nowalk flag set from a nowalk property and the exit
\* map set from each exit property present, and leaves every tile outside the
\* footprint as it was.
C12_MergeChangesFootprintOnly ==
    [][(/\ MergeStep
        /\ Len(op'[2]) = 1
        /\ ~Misplaced(op'[2][1])
        /\ \A c \in Footprint(op'[2][1]) : InsideGrid(c)) =>
         /\ fault' = "none"
         /\ Len(tiles') = Len(tiles)
         /\ \A c \in CellSeqs(op'[2][1]) : \E i \in 1..Len(tiles) : tiles[i].seq = c
         /\ \A i \in 1..Len(tiles) :
                IF tiles[i].seq \in CellSeqs(op'[2][1])
                THEN MergedInto(tiles[i], tiles'[i], op'[2][1].properties)
                ELSE tiles'[i] = tiles[i]
      ]_vars

\* C13: after merging two tile-aligned objects that carry the same property key,
\* every tile in the overlap of their footprints holds the value of the object
\* merged last, in its property map and in the nowalk flag or exit map derived
\* from that key.
C13_LastMergedWins ==
    [][(/\ MergeStep
        /\ Len(op'[2]) = 2
        /\ ~Misplaced(op'[2][1]) /\ ~Misplaced(op'[2][2])) =>
         \A i \in 1..Len(tiles') :
             tiles'[i].seq \in CellSeqs(op'[2][1]) \cap CellSeqs(op'[2][2]) =>
                 \A k \in DOMAIN op'[2][1].properties \cap DOMAIN op'[2][2].properties :
                     /\ k \in DOMAIN tiles'[i].properties
                     /\ tiles'[i].properties[k] = op'[2][2].properties[k]
                     /\ k = "nowalk" => tiles'[i].nowalk = op'[2][2].properties[k]
                     /\ k \in ExitTypes =>
                            /\ k \in DOMAIN tiles'[i].exits
                            /\ tiles'[i].exits[k] = op'[2][2].properties[k]
      ]_vars

\* C14: merging two tile-aligned objects whose footprints share no cell leaves the
\* tiles the merge in the other order leaves, and every tile holds what merging
\* the one object that covers it alone gives it (tiles neither covers are as
\* before).
C14_DisjointMergesCommute ==
    [][(/\ MergeStep
        /\ Len(op'[2]) = 2
        /\ ~Misplaced(op'[2][1]) /\ ~Misplaced(op'[2][2])
        /\ Footprint(op'[2][1]) \cap Footprint(op'[2][2]) = {}) =>
         /\ tiles' = ProcessObjectList(tiles, 0, <<op'[2][2], op'[2][1]>>).tiles
         /\ Len(tiles') = Len(tiles)
         /\ \A i \in 1..Len(tiles) :
                tiles'[i] =
                    IF tiles[i].seq \in CellSeqs(op'[2][1])
                    THEN MergeTile(tiles[i], op'[2][1].properties)
                    ELSE IF tiles[i].seq \in CellSeqs(op'[2][2])
                    THEN MergeTile(tiles[i], op'[2][2].properties)
                    ELSE tiles[i]
      ]_vars

\* the objects of the list that are on the tile grid, in order
Placed(objs) == SelectSeq(objs, LAMBDA o : ~Misplaced(o))

\* C15: every object of the list whose x, y, width or height is not a multiple of
\* the tile dimension is skipped: one error is logged for it, and the tiles and
\* the outcome of the call are those of the call on the list without it.
C15_MisplacedObjectSkipped ==
    [][MergeStep =>
         /\ map_errors' = map_errors + (Len(op'[2]) - Len(Placed(op'[2])))
         /\ tiles' = ProcessObjectList(tiles, 0, Placed(op'[2])).tiles
         /\ fault' = ProcessObjectList(tiles, 0, Placed(op'[2])).fault
      ]_vars

\* the tile t after the objects of objs from object i on have been merged into the
\* cells of the grid they cover
RECURSIVE ClippedMerge(_, _, _)
ClippedMerge(t, objs, i) ==
    IF i > Len(objs) THEN t
    ELSE ClippedMerge(IF t.seq \in CellSeqs(objs[i]) THEN MergeTile(t, objs[i].properties)
                      ELSE t,
                      objs, i + 1)

\* C20: merging tile-aligned objects completes without a fault wherever their
\* rectangles lie: the cells of each footprint inside the grid are merged, the
\* cells outside it are ignored, and the objects after it are processed.
C20_MergeBeyondGridCompletes ==
    [][(MergeStep /\ \A j \in 1..Len(op'[2]) : ~Misplaced(op'[2][j])) =>
         /\ fault' = "none"
         /\ Len(tiles') = Len(tiles)
         /\ \A i \in 1..Len(tiles) : tiles'[i] = ClippedMerge(tiles[i], op'[2], 1)
      ]_vars

\* ------------------------------------------------------------- input keys

\* C16: register on a key that has a callback leaves the registry as it is, so
\* the callback registered first stays the one a tick dispatches; register on a
\* key that has none (never registered, or unregistered since) binds the callback
\* it is given and leaves the other keys alone; unregister removes the key's
\* callback and nothing else. setup_player registers its four keys the same way.
C16_FirstRegistrationWins ==
    /\ [][/\ op'[1] = "register" =>
               IF op'[2] \in DOMAIN registry
               THEN registry' = registry
               ELSE /\ DOMAIN registry' = DOMAIN registry \cup {op'[2]}
                    /\ registry'[op'[2]] = op'[3]
                    /\ \A k \in DOMAIN registry : registry'[k] = registry[k]
          /\ op'[1] = "unregister" =>
               /\ DOMAIN registry' = DOMAIN registry \ {op'[2]}
               /\ \A k \in DOMAIN registry' : registry'[k] = registry[k]
          /\ op'[1] = "setup_player" =>
               \A k \in DOMAIN registry : registry'[k] = registry[k]
         ]_vars
    /\ []((op[1] = "tick" /\ stack # <<>> /\ stack[1] \in DOMAIN registry) =>
              dispatched = <<registry[stack[1]]>>)

\* C16 witness: the last call registered a callback on a key that had another
\* one, the key still has the first, and it is a held key's turn to be dispatched.
C16_Witness ==
    /\ op[1] = "register"
    /\ op[2] \in DOMAIN registry
    /\ registry[op[2]] # op[3]
    /\ stack # <<>> /\ stack[1] = op[2]

\* the sequence in reverse order
Reverse(seq) == [i \in 1..Len(seq) |-> seq[Len(seq) + 1 - i]]

OnStack(keysym) == \E i \in 1..Len(stack) : stack[i] = keysym

\* C17: the key stack never holds a key twice, holds exactly the keys pressed and
\* not released since, the one pressed last at the front and the one pressed first
\* at the back; key_down on a held key and key_up on a key not held leave it as it
\* is; register, unregister, tick and setup_player never change it.
C17_StackIsHeldKeysByRecency ==
    /\ [](/\ \A i, j \in 1..Len(stack) : i # j => stack[i] # stack[j]
          /\ stack = Reverse(held))
    /\ [][/\ (op'[1] = "key_down" /\ OnStack(op'[2])) => stack' = stack
          /\ (op'[1] = "key_up" /\ ~OnStack(op'[2])) => stack' = stack
          /\ op'[1] \in {"register", "unregister", "tick", "setup_player"} => stack' = stack
         ]_vars

\* C17 witness: three keys are held and the last call was a repeat signal for the
\* key pressed first, which is still at the back of the stack.
C17_Witness ==
    /\ op[1] = "key_down"
    /\ Len(stack) = 3
    /\ stack[3] = op[2]
    /\ held[1] = op[2]

\* ------------------------------------------------------ entities, continued

\* the step is an insert that fails on misalignment: the mode is valid, x or y is
\* off the tile grid, and the call returns none
MisalignedFailureStep ==
    /\ ValidInsertStep
    /\ ~OnTile(op'[4], op'[5])
    /\ fault' = "none"
    /\ ret' = NoEntity

\* C18: when insert fails on misalignment the Entity the call created stays in the
\* live list: the list is the list before with that Entity after it, the Entity
\* carries the eid the call consumed and the x, y and layer it was given, has no
\* tile, and entity(eid) and layer(layer) find it.
C18_MisalignedEntityStaysListed ==
    [][MisalignedFailureStep =>
         /\ Len(entities') = Len(entities) + 1
         /\ SubSeq(entities', 1, Len(entities)) = entities
         /\ LET created == entities'[Len(entities')]
            IN /\ created.oid = last_eid + 1
               /\ created.eid = last_eid + 1
               /\ last_eid' = last_eid + 1
               /\ created.x = op'[4] /\ created.y = op'[5] /\ created.layer = op'[3]
               /\ created.tile = NoTile
               /\ EntityOf(entities', created.eid, 1) = created
               /\ \E i \in 1..Len(EntitiesOnLayer(entities', op'[3])) :
                      EntitiesOnLayer(entities', op'[3])[i] = created
      ]_vars

\* C18 witness: an insert off the tile grid has returned none after an earlier
\* insert, and the live list ends with its Entity, which has no tile.
C18_Witness ==
    /\ op[1] = "insert" /\ ValidMode(op[2]) /\ ~OnTile(op[4], op[5])
    /\ ret = NoEntity /\ fault = "none"
    /\ Len(entities) >= 2
    /\ entities[Len(entities)].eid = last_eid
    /\ entities[Len(entities)].x = op[4]
    /\ entities[Len(entities)].tile = NoTile

\* C19: the player reference is none or an Entity of the live list, in every
\* state insert, setup_player, kill and killall lead to.
C19_PlayerIsLive ==
    player = -1 \/ \E i \in 1..Len(entities) : entities[i].oid = player

====
